---------------------------- MODULE Spec2Model ----------------------------
(***************************************************************************)
(* VideoTrimmerApp: the trim screen with its two-handle timeline slider    *)
(* (VideoTrimmerScreen, CustomTimelineSlider) and the bounded playback     *)
(* controller of the playback screen (VideoPlayerScreen).                  *)
(*                                                                         *)
(* Times are milliseconds, pixel positions are pixels.  JavaScript numbers *)
(* are modelled as exact values: the video durations are multiples of the  *)
(* slider width, so every time <-> pixel conversion the slider performs on *)
(* a reachable state divides exactly (ExactConversions).  NaN and Infinity *)
(* are two integers outside the finite range.  Playback rates are in       *)
(* hundredths.                                                             *)
(*                                                                         *)
(* Specifications:                                                         *)
(*   TrimSpec        the trim screen: drags, status notifications,         *)
(*                   "Apply Trim", "Back"                                  *)
(*   PlayerSpec      the playback screen: notifications, initializeVideo,  *)
(*                   the user commands, teardown and unmount               *)
(*   LoadSpec        the playback screen staying mounted, every command    *)
(*                   resolving, with fair timers and continuations         *)
(*   RetrySpec       a video load whose commands may be rejected, with     *)
(*                   fair notifications, timers and settlements            *)
(*   FlowSpec        trim screen and playback screen in turn               *)
(*   MultiTouchSpec  the slider with both handles moved in one cycle       *)
(*   DegenerateSpec  the trim screen with a duration of 0                  *)
(*   LongVideoSpec   the trim screen with a five-minute video              *)
(*   RoundTripSpec   the slider's two conversions on arbitrary times       *)
(*   ReloadSpec      the mounted playback screen receiving new route       *)
(*                   parameters                                            *)
(*   ProgressSpec    the two progress percentages on arbitrary times       *)
(*                                                                         *)
(* Every event handler runs to completion on the single JavaScript thread  *)
(* and the component re-renders before the next event is delivered, so a   *)
(* handler is one action that reads the rendered state.  An async function *)
(* is one action per stretch of code between two awaits.                   *)
(***************************************************************************)
EXTENDS Integers, Sequences, FiniteSets

VARIABLES
    videoDuration,            \* trim screen: route.params.videoDuration
    trim,                     \* trim screen: its useState cells
    slider,                   \* CustomTimelineSlider: its useState cells
    session,                  \* playback screen: route.params (the TrimSession)
    player,                   \* playback screen: its useState cells
    initializationAttempted,  \* playback screen: the one-shot useRef flag
    inits,                    \* playback screen: the initializeVideo calls that passed the guard
    calls,                    \* playback screen: the user commands suspended at an await
    nav,                      \* the focused screen, whether route.params.videoUri is set, and whether
                              \* the playback screen's videoRef.current is (its Video is mounted)
    ev,                       \* history: the event handled last, with what it saw
    cmds,                     \* history: the player commands issued by the last action
    runSeeks                  \* history: loop seeks issued in the current run of end-boundary notifications

vars == <<videoDuration, trim, slider, session, player,
          initializationAttempted, inits, calls, nav, ev, cmds, runSeeks>>

trimVars == <<videoDuration, trim, slider>>
playerVars == <<session, player, initializationAttempted, inits, calls, runSeeks>>

----------------------------------------------------------------------------
(* JavaScript helpers *)

(* A number is an integer, NaN or Infinity.  The two are integers outside  *)
(* the range of the model's finite values, Infinity above all of them.     *)
NaN == -999999
Infinity == 999999

(* Math.min and Math.max: NaN if an argument is NaN *)
Min(a, b) == IF a = NaN \/ b = NaN THEN NaN ELSE IF a <= b THEN a ELSE b
Max(a, b) == IF a = NaN \/ b = NaN THEN NaN ELSE IF a >= b THEN a ELSE b

(* a + b and a - b for a below Infinity or b finite *)
Plus(a, b) ==
    IF a = NaN \/ b = NaN THEN NaN
    ELSE IF a = Infinity \/ b = Infinity THEN Infinity
    ELSE a + b

Minus(a, b) ==
    IF a = NaN \/ b = NaN \/ (a = Infinity /\ b = Infinity) THEN NaN
    ELSE IF a = Infinity THEN Infinity
    ELSE a - b

(* a < b and a >= b: false if an operand is NaN *)
Less(a, b) == a # NaN /\ b # NaN /\ a < b
AtLeast(a, b) == a # NaN /\ b # NaN /\ a >= b

Seek(t) == [op |-> "setPositionAsync", arg |-> t]
Pause == [op |-> "pauseAsync", arg |-> 0]
Play == [op |-> "playAsync", arg |-> 0]
SetRate(rate) == [op |-> "setRateAsync", arg |-> rate]

NoEvent == [kind |-> "none"]

----------------------------------------------------------------------------
(* CustomTimelineSlider *)

screenWidth == 240
SLIDER_WIDTH == screenWidth - 40
MIN_GAP_PX == 30

(* Durations are SLIDER_WIDTH * k with k dividing 1000 and 30000, so that    *)
(* one pixel is k milliseconds: 400, 800, 1000, 2000 and 40000 ms.  The     *)
(* selection screen passes `video.duration || 10000', so 0 is not a value.  *)
DurationFactors == {2, 4, 5, 10, 200}
Durations == {SLIDER_WIDTH * k : k \in DurationFactors}

(* gestureState.dx of a move event, in pixels *)
Dxs == {-200, -50, -10, 10, 50, 200}

(* (time / duration) * SLIDER_WIDTH, for time >= 0: 0 / 0 is NaN and a      *)
(* positive time / 0 is Infinity                                           *)
TimeToPos(time, duration) ==
    IF time = NaN THEN NaN
    ELSE IF duration = 0 THEN (IF time = 0 THEN NaN ELSE Infinity)
    ELSE IF time = Infinity THEN Infinity
    ELSE (time * SLIDER_WIDTH) \div duration

(* (position / SLIDER_WIDTH) * duration: Infinity * 0 is NaN *)
PosToTime(position, duration) ==
    IF position = NaN THEN NaN
    ELSE IF position = Infinity THEN (IF duration = 0 THEN NaN ELSE Infinity)
    ELSE (position * duration) \div SLIDER_WIDTH

startPosition == TimeToPos(trim.startTime, videoDuration)
endPosition == TimeToPos(trim.endTime, videoDuration)
currentPosition == TimeToPos(trim.currentTime, videoDuration)

(* the value the start handle's move handler passes to onStartTimeChange *)
StartMoveTime(dx) ==
    LET newPosition == Plus(startPosition, dx)
        clampedPosition == Max(0, Min(Minus(endPosition, MIN_GAP_PX), newPosition))
        newTime == PosToTime(clampedPosition, videoDuration)
    IN  Max(0, newTime)

(* the value the end handle's move handler passes to onEndTimeChange *)
EndMoveTime(dx) ==
    LET newPosition == Plus(endPosition, dx)
        clampedPosition == Max(Plus(startPosition, MIN_GAP_PX),
                               Min(SLIDER_WIDTH, newPosition))
        newTime == PosToTime(clampedPosition, videoDuration)
    IN  Min(videoDuration, newTime)

----------------------------------------------------------------------------
(* VideoTrimmerScreen *)

MIN_GAP_MS == 1000
MAX_INITIAL_END == 30000

TrimPositions == {0, 1000, 30000}

InitialEndTime(duration) == Min(duration, MAX_INITIAL_END)

ClampedStartTime_NoGap(endTime, newStartTime) ==
    Max(0, Min(endTime, newStartTime))

ClampedStartTime(endTime, newStartTime) ==
    Max(0, Min(Minus(endTime, MIN_GAP_MS), newStartTime))

ClampedEndTime(startTime, duration, newEndTime) ==
    Max(Plus(startTime, MIN_GAP_MS), Min(duration, newEndTime))

handleStartTimeChange_Pushes(newStartTime) ==
    LET clampedStartTime == ClampedStartTime(videoDuration, newStartTime)
    IN  /\ trim' = [trim EXCEPT !.startTime = clampedStartTime,
                                !.endTime = Max(@, Plus(clampedStartTime, MIN_GAP_MS))]
        /\ cmds' = IF Less(trim.currentTime, clampedStartTime)
                   THEN <<Seek(clampedStartTime)>> ELSE <<>>

handleStartTimeChange(newStartTime) ==
    LET clampedStartTime == ClampedStartTime(trim.endTime, newStartTime)
    IN  /\ trim' = [trim EXCEPT !.startTime = clampedStartTime]
        /\ cmds' = IF Less(trim.currentTime, clampedStartTime)
                   THEN <<Seek(clampedStartTime)>> ELSE <<>>

handleEndTimeChange_NoSeek(newEndTime) ==
    LET clampedEndTime == ClampedEndTime(trim.startTime, videoDuration, newEndTime)
    IN  /\ trim' = [trim EXCEPT !.endTime = clampedEndTime]
        /\ cmds' = <<>>

handleEndTimeChange(newEndTime) ==
    LET clampedEndTime == ClampedEndTime(trim.startTime, videoDuration, newEndTime)
    IN  /\ trim' = [trim EXCEPT !.endTime = clampedEndTime]
        /\ cmds' = IF Less(clampedEndTime, trim.currentTime)
                   THEN <<Seek(clampedEndTime)>> ELSE <<>>

(* the trim screen is focused and renders its Video and its slider (it     *)
(* renders the loading view instead while videoUri is missing)             *)
SliderShown == nav.screen = "trim" /\ nav.videoUri

(* onPanResponderGrant: the handle becomes the responder *)
PanGrant(isStart) ==
    /\ SliderShown
    /\ slider.activeHandle = "null"
    /\ slider' = [isDragging |-> TRUE,
                  activeHandle |-> IF isStart THEN "start" ELSE "end"]
    /\ ev' = [kind |-> "grant", isStart |-> isStart]
    /\ cmds' = <<>>
    /\ UNCHANGED <<videoDuration, trim>>
    /\ UNCHANGED <<nav, playerVars>>

(* onPanResponderMove of the handle that is the responder *)
PanMove(isStart, dx) ==
    /\ SliderShown
    /\ slider.activeHandle = (IF isStart THEN "start" ELSE "end")
    /\ IF isStart
       THEN handleStartTimeChange(StartMoveTime(dx))
       ELSE handleEndTimeChange(EndMoveTime(dx))
    /\ ev' = [kind |-> "move", isStart |-> isStart, dx |-> dx]
    /\ UNCHANGED <<videoDuration, slider>>
    /\ UNCHANGED <<nav, playerVars>>

(* onPanResponderRelease *)
PanRelease ==
    /\ SliderShown
    /\ slider.activeHandle # "null"
    /\ slider' = [isDragging |-> FALSE, activeHandle |-> "null"]
    /\ ev' = [kind |-> "release"]
    /\ cmds' = <<>>
    /\ UNCHANGED <<videoDuration, trim>>
    /\ UNCHANGED <<nav, playerVars>>

(* the trim screen's handleVideoStatusUpdate *)
TrimStatusUpdate_WhilePlaying(status) ==
    /\ SliderShown
    /\ IF status.isLoaded
       THEN /\ trim' = [trim EXCEPT !.currentTime = status.positionMillis,
                                    !.isPlaying = status.isPlaying]
            /\ cmds' = IF status.isPlaying /\ AtLeast(status.positionMillis, trim.endTime)
                       THEN <<Seek(trim.startTime)>> ELSE <<>>
       ELSE /\ trim' = trim
            /\ cmds' = <<>>
    /\ ev' = [kind |-> "trimStatus", status |-> status]
    /\ UNCHANGED <<videoDuration, slider>>
    /\ UNCHANGED <<nav, playerVars>>

TrimStatusUpdate(status) ==
    /\ SliderShown
    /\ IF status.isLoaded
       THEN /\ trim' = [trim EXCEPT !.currentTime = status.positionMillis,
                                    !.isPlaying = status.isPlaying]
            /\ cmds' = IF AtLeast(status.positionMillis, trim.endTime)
                       THEN <<Seek(trim.startTime)>> ELSE <<>>
       ELSE /\ trim' = trim
            /\ cmds' = <<>>
    /\ ev' = [kind |-> "trimStatus", status |-> status]
    /\ UNCHANGED <<videoDuration, slider>>
    /\ UNCHANGED <<nav, playerVars>>

TrimStatuses ==
    [isLoaded : {TRUE}, positionMillis : TrimPositions, isPlaying : BOOLEAN]
        \cup {[isLoaded |-> FALSE, positionMillis |-> 0, isPlaying |-> FALSE]}

(* `trimmedDuration < 1000' *)
TooShort_Inclusive(trimmedDuration) == trimmedDuration <= MIN_GAP_MS

TooShort(trimmedDuration) == Less(trimmedDuration, MIN_GAP_MS)

(* the state of a playback screen that has just mounted with these         *)
(* route.params                                                            *)
MountedPlayer(params) ==
    [isPlaying |-> FALSE, currentTime |-> params.startTime, playbackSpeed |-> 100,
     isLooping |-> TRUE, videoLoaded |-> FALSE, isInitialized |-> FALSE]

(* the route.params that "Apply Trim" passes to the playback screen, which  *)
(* reads startTime and endTime of them                                     *)
NavigateParams ==
    [startTime |-> trim.startTime,
     endTime |-> trim.endTime,
     originalDuration |-> videoDuration,
     trimmedDuration |-> Minus(trim.endTime, trim.startTime)]

(* "Apply Trim": the three refusals, the pause, then                       *)
(* navigate('VideoPlayer', {videoUri, startTime, endTime, ...}), which     *)
(* mounts a playback screen                                                *)
handleProceedToPlayer ==
    /\ nav.screen = "trim"
    /\ IF \/ ~nav.videoUri
          \/ AtLeast(trim.startTime, trim.endTime)
          \/ TooShort(Minus(trim.endTime, trim.startTime))
       THEN /\ cmds' = <<>>
            /\ ev' = [kind |-> "handleProceedToPlayer", navigated |-> FALSE]
            /\ UNCHANGED <<trim, nav, playerVars>>
       ELSE /\ cmds' = IF trim.isPlaying THEN <<Pause>> ELSE <<>>
            /\ trim' = [trim EXCEPT !.isPlaying = FALSE]
            /\ nav' = [nav EXCEPT !.screen = "player", !.videoRef = TRUE]
            /\ ev' = [kind |-> "handleProceedToPlayer", navigated |-> TRUE,
                      params |-> NavigateParams]
            /\ session' = [startTime |-> NavigateParams.startTime,
                           endTime |-> NavigateParams.endTime]
            /\ player' = MountedPlayer(session')
            /\ initializationAttempted' = FALSE
            /\ inits' = <<>>
            /\ calls' = <<>>
            /\ runSeeks' = 0
    /\ UNCHANGED <<videoDuration, slider>>

(* navigation.goBack() of the trim screen's "Back" and of its alert's      *)
(* "Go Back": the beforeRemove listener runs and the screen beneath, the   *)
(* selection screen, is focused                                            *)
trimGoBack ==
    /\ nav.screen = "trim"
    /\ cmds' = IF nav.videoUri /\ trim.isPlaying THEN <<Pause>> ELSE <<>>
    /\ trim' = IF nav.videoUri THEN [trim EXCEPT !.isPlaying = FALSE] ELSE trim
    /\ nav' = [nav EXCEPT !.screen = "selection"]
    /\ ev' = [kind |-> "trimGoBack"]
    /\ UNCHANGED <<videoDuration, slider, playerVars>>

PlayerIdle ==
    /\ session = [startTime |-> 0, endTime |-> 0]
    /\ player = [isPlaying |-> FALSE, currentTime |-> 0, playbackSpeed |-> 100,
                 isLooping |-> TRUE, videoLoaded |-> FALSE, isInitialized |-> FALSE]
    /\ initializationAttempted = FALSE
    /\ inits = <<>>
    /\ calls = <<>>
    /\ runSeeks = 0

(* the trim screen after its mount effect has run *)
TrimInit ==
    /\ videoDuration \in Durations
    /\ nav \in [screen : {"trim"}, videoUri : BOOLEAN, videoRef : {FALSE}]
    /\ trim = [startTime |-> 0,
               endTime |-> IF nav.videoUri THEN InitialEndTime(videoDuration) ELSE 0,
               currentTime |-> 0, isPlaying |-> FALSE]
    /\ slider = [isDragging |-> FALSE, activeHandle |-> "null"]
    /\ ev = NoEvent
    /\ cmds = <<>>
    /\ PlayerIdle

TrimNext ==
    \/ \E isStart \in BOOLEAN : PanGrant(isStart)
    \/ \E isStart \in BOOLEAN, dx \in Dxs : PanMove(isStart, dx)
    \/ PanRelease
    \/ \E status \in TrimStatuses : TrimStatusUpdate(status)
    \/ handleProceedToPlayer
    \/ trimGoBack

TrimSpec == TrimInit /\ [][TrimNext]_vars

(* a move of the start handle and a move of the end handle delivered in    *)
(* one update cycle: both closures read the startTime and endTime of the   *)
(* same render, and both state updates are applied                         *)
PanMoveBoth(dxStart, dxEnd) ==
    LET clampedStartTime == ClampedStartTime(trim.endTime, StartMoveTime(dxStart))
        clampedEndTime == ClampedEndTime(trim.startTime, videoDuration,
                                         EndMoveTime(dxEnd))
    IN  /\ SliderShown
        /\ slider.activeHandle # "null"
        /\ trim' = [trim EXCEPT !.startTime = clampedStartTime,
                                !.endTime = clampedEndTime]
        /\ cmds' = (IF Less(trim.currentTime, clampedStartTime)
                    THEN <<Seek(clampedStartTime)>> ELSE <<>>)
                   \o (IF Less(clampedEndTime, trim.currentTime)
                       THEN <<Seek(clampedEndTime)>> ELSE <<>>)
        /\ ev' = [kind |-> "moveBoth"]
        /\ UNCHANGED <<videoDuration, slider, nav, playerVars>>

MultiTouchNext ==
    \/ \E isStart \in BOOLEAN : PanGrant(isStart)
    \/ \E isStart \in BOOLEAN, dx \in Dxs : PanMove(isStart, dx)
    \/ PanRelease
    \/ \E dxStart \in Dxs, dxEnd \in Dxs : PanMoveBoth(dxStart, dxEnd)

MultiTouchSpec == TrimInit /\ [][MultiTouchNext]_vars

----------------------------------------------------------------------------
(* The two conversions of the slider on arbitrary times.  A position that  *)
(* is not a whole number of pixels is kept as a fraction num / den, so     *)
(* that nothing is rounded, as in the code.                                *)

MaxDuration == 60
RoundTripDurations == (1..MaxDuration) \cup {d \in Durations : d <= MIN_GAP_MS}

(* (time / duration) * SLIDER_WIDTH *)
TimeToPosQ(time, duration) == [num |-> time * SLIDER_WIDTH, den |-> duration]

(* (position / SLIDER_WIDTH) * duration *)
PosToTimeQ_ScreenWidth(position, duration) ==
    [num |-> position.num * duration, den |-> position.den * screenWidth]

PosToTimeQ(position, duration) ==
    [num |-> position.num * duration, den |-> position.den * SLIDER_WIDTH]

(* the slider rendered with some duration > 0 and some currentTime in      *)
(* [0, duration]                                                           *)
RoundTripInit ==
    /\ videoDuration \in RoundTripDurations
    /\ nav = [screen |-> "trim", videoUri |-> TRUE, videoRef |-> FALSE]
    /\ \E t \in 0..videoDuration :
          trim = [startTime |-> 0, endTime |-> InitialEndTime(videoDuration),
                  currentTime |-> t, isPlaying |-> FALSE]
    /\ slider = [isDragging |-> FALSE, activeHandle |-> "null"]
    /\ ev = NoEvent
    /\ cmds = <<>>
    /\ PlayerIdle

(* time to pixel position, as for currentPosition *)
ToPosition ==
    /\ ev.kind = "none"
    /\ ev' = [kind |-> "position", value |-> TimeToPosQ(trim.currentTime, videoDuration)]
    /\ UNCHANGED <<videoDuration, trim, slider, nav, cmds, playerVars>>

(* pixel position to time, as for newTime in the move handler *)
ToTime ==
    /\ ev.kind = "position"
    /\ ev' = [kind |-> "time", value |-> PosToTimeQ(ev.value, videoDuration)]
    /\ UNCHANGED <<videoDuration, trim, slider, nav, cmds, playerVars>>

RoundTripNext == ToPosition \/ ToTime

RoundTripSpec == RoundTripInit /\ [][RoundTripNext]_vars

----------------------------------------------------------------------------
(* the trim screen mounted with a videoUri and with videoDuration 0 (or     *)
(* missing: `if (videoDuration)' leaves endTime at 0 in both cases)        *)
DegenerateInit ==
    /\ videoDuration = 0
    /\ nav = [screen |-> "trim", videoUri |-> TRUE, videoRef |-> FALSE]
    /\ trim = [startTime |-> 0, endTime |-> 0, currentTime |-> 0, isPlaying |-> FALSE]
    /\ slider = [isDragging |-> FALSE, activeHandle |-> "null"]
    /\ ev = NoEvent
    /\ cmds = <<>>
    /\ PlayerIdle

DegenerateSpec == DegenerateInit /\ [][TrimNext]_vars

(* the trim screen mounted with a five-minute video: the initial range     *)
(* (0, 30000) is 20 pixels wide, one pixel is 1500 ms                      *)
LongVideoInit ==
    /\ videoDuration = SLIDER_WIDTH * 1500
    /\ nav = [screen |-> "trim", videoUri |-> TRUE, videoRef |-> FALSE]
    /\ trim = [startTime |-> 0, endTime |-> InitialEndTime(videoDuration),
               currentTime |-> 0, isPlaying |-> FALSE]
    /\ slider = [isDragging |-> FALSE, activeHandle |-> "null"]
    /\ ev = NoEvent
    /\ cmds = <<>>
    /\ PlayerIdle

LongVideoSpec == LongVideoInit /\ [][TrimNext]_vars

(* every conversion the slider performs divides exactly *)
ExactConversions ==
    /\ (trim.startTime * SLIDER_WIDTH) % videoDuration = 0
    /\ (trim.endTime * SLIDER_WIDTH) % videoDuration = 0

----------------------------------------------------------------------------
(* VideoPlayerScreen *)

MaxInits == 2       \* initializeVideo calls kept in inits
MaxCalls == 1       \* user commands suspended at an await at one time
MaxRun == 3         \* where runSeeks stops counting

(* route.params of the playback screen.  The screen defaults a missing      *)
(* startTime and endTime to 0 and guards its progress bar against          *)
(* endTime <= startTime, so a range with startTime >= endTime is an input. *)
Sessions == {[startTime |-> 0, endTime |-> 3000],
             [startTime |-> 2000, endTime |-> 5000],
             [startTime |-> 5000, endTime |-> 2000]}

Positions == {1000, 2000, 3000, 5000, 5200}

Statuses ==
    [isLoaded : {TRUE}, positionMillis : Positions, isPlaying : BOOLEAN]
        \cup {[isLoaded |-> FALSE, positionMillis |-> 0, isPlaying |-> FALSE]}

Range(seq) == {seq[i] : i \in DOMAIN seq}

(* `positionMs >= endTime && status.isPlaying' *)
EndBoundary_Strict(status) ==
    status.positionMillis > session.endTime /\ status.isPlaying

EndBoundary(status) ==
    status.positionMillis >= session.endTime /\ status.isPlaying

(* `positionMs < startTime && status.isPlaying' *)
StartBoundary_Paused(status) ==
    status.positionMillis < session.startTime /\ ~status.isPlaying

StartBoundary(status) ==
    status.positionMillis < session.startTime /\ status.isPlaying

(* `if (isInitialized)': the steady-state rule runs only once initialized *)
ShouldApplyRule_Always == TRUE

ShouldApplyRule_OnceAttempted == initializationAttempted

ShouldApplyRule == player.isInitialized

(* the player commands of the steady-state rule, in the order issued *)
RuleCmds_OncePerRun(status) ==
    IF runSeeks > 0 THEN <<>>
    ELSE (IF EndBoundary(status)
          THEN IF player.isLooping THEN <<Seek(session.startTime)>> ELSE <<Pause>>
          ELSE <<>>)
         \o (IF StartBoundary(status) THEN <<Seek(session.startTime)>> ELSE <<>>)

RuleCmds(status) ==
    (IF EndBoundary(status)
     THEN IF player.isLooping THEN <<Seek(session.startTime)>> ELSE <<Pause>>
     ELSE <<>>)
    \o (IF StartBoundary(status) THEN <<Seek(session.startTime)>> ELSE <<>>)

(* the last setCurrentTime of the steady-state rule *)
RuleCurrentTime_AsReported(status) == status.positionMillis

RuleCurrentTime_Clamped(status) ==
    Max(session.startTime, Min(session.endTime, status.positionMillis))

RuleCurrentTime(status) ==
    IF StartBoundary(status) THEN session.startTime
    ELSE IF EndBoundary(status) /\ player.isLooping THEN session.startTime
    ELSE status.positionMillis

(* the last setIsPlaying of the steady-state rule *)
RuleIsPlaying(status) ==
    IF EndBoundary(status) /\ ~player.isLooping THEN FALSE ELSE status.isPlaying

SeeksIn(seq) == Cardinality({i \in DOMAIN seq : seq[i].op = "setPositionAsync"})

(* initializeVideo up to its first await: the guard and the one-shot flag. *)
(* videoRef.current is set whenever the Video component delivers a         *)
(* notification, so `!videoRef.current' is false here.                     *)
initializeVideo_NoFlag ==
    IF initializationAttempted \/ player.isInitialized \/ Len(inits) >= MaxInits
    THEN UNCHANGED <<initializationAttempted, inits>>
    ELSE /\ initializationAttempted' = initializationAttempted
         /\ inits' = Append(inits, [pc |-> "delay", cmds |-> <<>>, notified |-> FALSE])

initializeVideo ==
    IF initializationAttempted \/ player.isInitialized \/ Len(inits) >= MaxInits
    THEN UNCHANGED <<initializationAttempted, inits>>
    ELSE /\ initializationAttempted' = TRUE
         /\ inits' = Append(inits, [pc |-> "delay", cmds |-> <<>>, notified |-> FALSE])

(* the initializeVideo calls as a loaded notification leaves them: the     *)
(* handler ignores it while uninitialized, and a call that awaits a        *)
(* command it has issued, or the delay after it, has now been notified of  *)
(* a position since that command                                           *)
Notified ==
    [i \in DOMAIN inits |->
        IF inits[i].pc \in {"pause", "seek", "settle"}
        THEN [inits[i] EXCEPT !.notified = TRUE] ELSE inits[i]]

(* the playback screen's handleVideoStatusUpdate *)
handleVideoStatusUpdate(status) ==
    /\ nav.videoRef
    /\ IF ~status.isLoaded
       THEN /\ UNCHANGED <<player, initializationAttempted, inits>>
            /\ cmds' = <<>>
            /\ runSeeks' = 0
       ELSE IF ~player.isInitialized /\ ~initializationAttempted
       THEN /\ initializeVideo
            /\ cmds' = <<>>
            /\ UNCHANGED <<player, runSeeks>>
       ELSE IF ShouldApplyRule
       THEN /\ player' = [player EXCEPT !.currentTime = RuleCurrentTime(status),
                                        !.isPlaying = RuleIsPlaying(status)]
            /\ cmds' = RuleCmds(status)
            /\ runSeeks' = IF EndBoundary(status)
                           THEN Min(MaxRun, runSeeks + SeeksIn(RuleCmds(status)))
                           ELSE 0
            /\ UNCHANGED <<initializationAttempted, inits>>
       ELSE /\ inits' = Notified
            /\ UNCHANGED <<player, initializationAttempted, runSeeks>>
            /\ cmds' = <<>>
    /\ ev' = [kind |-> "status", status |-> status,
              started |-> (Len(inits') > Len(inits)),
              repeated |-> (ev.kind = "status" /\ ev.status = status)]
    /\ UNCHANGED <<session, trimVars, nav, calls>>

(* `if (startTime > 0)': initializeVideo seeks only to a positive start *)
NeedsSeek_Never == FALSE

NeedsSeek == session.startTime > 0

(* the state updates that end initializeVideo; an unmounted screen drops  *)
(* them                                                                    *)
InitComplete_AutoPlay(i) ==
    /\ player' = IF nav.videoRef
                 THEN [player EXCEPT !.currentTime = session.startTime,
                                     !.isInitialized = TRUE,
                                     !.videoLoaded = TRUE,
                                     !.isPlaying = TRUE]
                 ELSE player
    /\ inits' = [inits EXCEPT ![i].pc = "done", ![i].notified = FALSE]
    /\ cmds' = <<>>

InitComplete(i) ==
    /\ player' = IF nav.videoRef
                 THEN [player EXCEPT !.currentTime = session.startTime,
                                     !.isInitialized = TRUE,
                                     !.videoLoaded = TRUE,
                                     !.isPlaying = FALSE]
                 ELSE player
    /\ inits' = [inits EXCEPT ![i].pc = "done", ![i].notified = FALSE]
    /\ cmds' = <<>>

(* `videoRef.current.pauseAsync()' on an unmounted screen throws into the  *)
(* catch block                                                             *)
InitThrew(i) ==
    /\ inits' = [inits EXCEPT ![i].pc = "failed", ![i].notified = FALSE]
    /\ cmds' = <<>>

(* the 1000 ms timer fires: initializeVideo issues pauseAsync *)
InitTimerFired(i) ==
    /\ inits[i].pc = "delay"
    /\ IF nav.videoRef
       THEN /\ inits' = [inits EXCEPT ![i].pc = "pause",
                                      ![i].cmds = Append(@, Pause),
                                      ![i].notified = FALSE]
            /\ cmds' = <<Pause>>
       ELSE InitThrew(i)
    /\ ev' = [kind |-> "init", step |-> "timer"]
    /\ UNCHANGED <<session, player, initializationAttempted, runSeeks, trimVars, nav, calls>>

(* pauseAsync resolves: seek to a positive start, else finish *)
InitPauseResolved(i) ==
    /\ inits[i].pc = "pause"
    /\ IF NeedsSeek
       THEN /\ IF nav.videoRef
               THEN /\ inits' = [inits EXCEPT ![i].pc = "seek",
                                              ![i].cmds = Append(@, Seek(session.startTime)),
                                              ![i].notified = FALSE]
                    /\ cmds' = <<Seek(session.startTime)>>
               ELSE InitThrew(i)
            /\ UNCHANGED player
       ELSE InitComplete(i)
    /\ ev' = [kind |-> "init", step |-> "paused"]
    /\ UNCHANGED <<session, initializationAttempted, runSeeks, trimVars, nav, calls>>

(* pauseAsync or setPositionAsync rejects: the catch block *)
InitRejected(i) ==
    /\ inits[i].pc \in {"pause", "seek"}
    /\ inits' = [inits EXCEPT ![i].pc = "failed", ![i].notified = FALSE]
    /\ cmds' = <<>>
    /\ ev' = [kind |-> "init", step |-> "rejected"]
    /\ UNCHANGED <<session, player, initializationAttempted, runSeeks, trimVars, nav, calls>>

(* setPositionAsync resolves: the 500 ms timer starts *)
InitSeekResolved(i) ==
    /\ inits[i].pc = "seek"
    /\ inits' = [inits EXCEPT ![i].pc = "settle"]
    /\ cmds' = <<>>
    /\ ev' = [kind |-> "init", step |-> "sought"]
    /\ UNCHANGED <<session, player, initializationAttempted, runSeeks, trimVars, nav, calls>>

(* the 500 ms timer fires *)
InitSettled(i) ==
    /\ inits[i].pc = "settle"
    /\ InitComplete(i)
    /\ ev' = [kind |-> "init", step |-> "settled"]
    /\ UNCHANGED <<session, initializationAttempted, runSeeks, trimVars, nav, calls>>

(* the playback screen is focused and renders its Video and its buttons    *)
(* (it renders the error view instead while videoUri is missing)           *)
ControlsShown == nav.screen = "player" /\ nav.videoUri

handleToggleLoop ==
    /\ ControlsShown
    /\ player' = [player EXCEPT !.isLooping = ~player.isLooping]
    /\ cmds' = <<>>
    /\ runSeeks' = 0
    /\ ev' = [kind |-> "toggleLoop"]
    /\ UNCHANGED <<session, initializationAttempted, inits, trimVars, nav, calls>>

(* the rate ladder, in hundredths *)
playbackSpeeds == <<50, 100, 125, 150, 200>>

indexOf(seq, x) == CHOOSE i \in DOMAIN seq : seq[i] = x

(* `playbackSpeeds[(currentIndex + 1) % playbackSpeeds.length]' *)
NextSpeed_NoWrap ==
    playbackSpeeds[Min(indexOf(playbackSpeeds, player.playbackSpeed) + 1,
                       Len(playbackSpeeds))]

NextSpeed ==
    playbackSpeeds[(indexOf(playbackSpeeds, player.playbackSpeed) % Len(playbackSpeeds)) + 1]

(* `if (!videoRef.current || !videoLoaded || !isInitialized) return' *)
ReadyForCommands_Always == TRUE

ReadyForCommands == nav.videoRef /\ player.videoLoaded /\ player.isInitialized

(* `currentTime < startTime || currentTime >= endTime' *)
OutOfRange_EndInclusive(t) == t < session.startTime \/ t > session.endTime

OutOfRange(t) == t < session.startTime \/ t >= session.endTime

RemoveAt(seq, i) == SubSeq(seq, 1, i - 1) \o SubSeq(seq, i + 1, Len(seq))

(* a handler reaches its first await: the command is issued and the call   *)
(* is suspended; `wrote' tells whether the handler changed a state field   *)
(* on its way to this await, and startTime is the route parameter as the   *)
(* handler's closure holds it                                              *)
Suspend(fn, pc, wrote, cmd) ==
    /\ Len(calls) < MaxCalls
    /\ calls' = Append(calls, [fn |-> fn, pc |-> pc, wrote |-> wrote,
                               startTime |-> session.startTime])
    /\ cmds' = <<cmd>>

handlePlayPause ==
    /\ ControlsShown
    /\ IF ~ReadyForCommands
       THEN /\ cmds' = <<>>
            /\ UNCHANGED calls
       ELSE IF player.isPlaying
       THEN Suspend("handlePlayPause", "pause", FALSE, Pause)
       ELSE IF OutOfRange(player.currentTime)
       THEN Suspend("handlePlayPause", "seek", FALSE, Seek(session.startTime))
       ELSE Suspend("handlePlayPause", "play", FALSE, Play)
    /\ runSeeks' = 0
    /\ ev' = [kind |-> "handlePlayPause"]
    /\ UNCHANGED <<session, player, initializationAttempted, inits, trimVars, nav>>

handleSpeedChange ==
    /\ ControlsShown
    /\ IF ~ReadyForCommands
       THEN /\ cmds' = <<>>
            /\ UNCHANGED <<player, calls>>
       ELSE /\ player' = [player EXCEPT !.playbackSpeed = NextSpeed]
            /\ Suspend("handleSpeedChange", "rate", TRUE, SetRate(NextSpeed))
    /\ runSeeks' = 0
    /\ ev' = [kind |-> "handleSpeedChange"]
    /\ UNCHANGED <<session, initializationAttempted, inits, trimVars, nav>>

handleRestart_PlayFirst ==
    /\ ControlsShown
    /\ IF ~ReadyForCommands
       THEN /\ cmds' = <<>>
            /\ UNCHANGED calls
       ELSE Suspend("handleRestart", "play", FALSE, Play)
    /\ runSeeks' = 0
    /\ ev' = [kind |-> "handleRestart"]
    /\ UNCHANGED <<session, player, initializationAttempted, inits, trimVars, nav>>

handleRestart ==
    /\ ControlsShown
    /\ IF ~ReadyForCommands
       THEN /\ cmds' = <<>>
            /\ UNCHANGED calls
       ELSE Suspend("handleRestart", "seek", FALSE, Seek(session.startTime))
    /\ runSeeks' = 0
    /\ ev' = [kind |-> "handleRestart"]
    /\ UNCHANGED <<session, player, initializationAttempted, inits, trimVars, nav>>

(* the awaited command of a suspended handler resolves and the handler     *)
(* runs to its next await or to its end; with the screen unmounted the     *)
(* state updates are dropped and `videoRef.current.playAsync()' throws     *)
(* into the catch block                                                    *)
CallResolved(i) ==
    /\ i \in DOMAIN calls
    /\ IF ~nav.videoRef
       THEN /\ calls' = RemoveAt(calls, i)
            /\ cmds' = <<>>
            /\ UNCHANGED player
       ELSE IF calls[i].pc = "pause"
       THEN /\ player' = [player EXCEPT !.isPlaying = FALSE]
            /\ calls' = RemoveAt(calls, i)
            /\ cmds' = <<>>
       ELSE IF calls[i].pc = "seek"
       THEN /\ player' = [player EXCEPT !.currentTime = calls[i].startTime]
            /\ calls' = [calls EXCEPT ![i].pc = "play",
                                      ![i].wrote = (player'.currentTime # player.currentTime)]
            /\ cmds' = <<Play>>
       ELSE IF calls[i].pc = "play"
       THEN /\ player' = [player EXCEPT !.isPlaying = TRUE]
            /\ calls' = RemoveAt(calls, i)
            /\ cmds' = <<>>
       ELSE /\ calls' = RemoveAt(calls, i)
            /\ cmds' = <<>>
            /\ UNCHANGED player
    /\ runSeeks' = 0
    /\ ev' = [kind |-> "resolved", call |-> calls[i]]
    /\ UNCHANGED <<session, initializationAttempted, inits, trimVars, nav>>

(* the awaited command rejects: the catch block logs the error *)
CallRejected(i) ==
    /\ i \in DOMAIN calls
    /\ calls' = RemoveAt(calls, i)
    /\ cmds' = <<>>
    /\ runSeeks' = 0
    /\ ev' = [kind |-> "rejected", call |-> calls[i]]
    /\ UNCHANGED <<session, player, initializationAttempted, inits, trimVars, nav>>

(* `if (videoRef.current && isPlaying) { pauseAsync(); setIsPlaying(false) }': *)
(* the body of the blur cleanup, of the beforeRemove listener and of the   *)
(* first lines of handleEditTrim and handleNewVideo                        *)
PauseIfPlaying ==
    /\ cmds' = IF nav.videoRef /\ player.isPlaying THEN <<Pause>> ELSE <<>>
    /\ player' = IF nav.videoRef /\ player.isPlaying
                 THEN [player EXCEPT !.isPlaying = FALSE] ELSE player

(* the state of a trim screen that has just mounted *)
MountedTrim ==
    [startTime |-> 0,
     endTime |-> IF nav.videoUri THEN InitialEndTime(videoDuration) ELSE 0,
     currentTime |-> 0, isPlaying |-> FALSE]

(* "Edit Trim": navigate('VideoTrimmer', {videoUri, videoDuration}).  The   *)
(* navigator either returns to the trim screen that is mounted beneath,    *)
(* with the state it was left in, or mounts a new trim screen from the     *)
(* two parameters; the playback screen is blurred either way.              *)
handleEditTrim ==
    /\ ControlsShown
    /\ PauseIfPlaying
    /\ nav' = [nav EXCEPT !.screen = "trim"]
    /\ \/ UNCHANGED <<trim, slider>>
       \/ /\ trim' = MountedTrim
          /\ slider' = [isDragging |-> FALSE, activeHandle |-> "null"]
    /\ runSeeks' = 0
    /\ ev' = [kind |-> "handleEditTrim"]
    /\ UNCHANGED <<videoDuration, session, initializationAttempted, inits, calls>>

(* "New Video" and the error view's "Select New Video":                    *)
(* navigate('VideoSelection')                                              *)
handleNewVideo ==
    /\ nav.screen = "player"
    /\ PauseIfPlaying
    /\ nav' = [nav EXCEPT !.screen = "selection"]
    /\ runSeeks' = 0
    /\ ev' = [kind |-> "handleNewVideo"]
    /\ UNCHANGED <<session, initializationAttempted, inits, calls, trimVars>>

(* navigation.goBack() of the header's "Back" and of the alert's "Go Back": *)
(* the beforeRemove listener runs and the screen beneath, the trim screen, *)
(* is focused                                                              *)
goBack ==
    /\ nav.screen = "player"
    /\ PauseIfPlaying
    /\ nav' = [nav EXCEPT !.screen = "trim"]
    /\ runSeeks' = 0
    /\ ev' = [kind |-> "goBack"]
    /\ UNCHANGED <<session, initializationAttempted, inits, calls, trimVars>>

(* a playback screen that was left is unmounted: videoRef.current is null  *)
(* from then on                                                            *)
Unmount ==
    /\ nav.screen # "player"
    /\ nav.videoRef
    /\ nav' = [nav EXCEPT !.videoRef = FALSE]
    /\ cmds' = <<>>
    /\ runSeeks' = 0
    /\ ev' = [kind |-> "unmount"]
    /\ UNCHANGED <<session, player, initializationAttempted, inits, calls, trimVars>>

TrimIdle ==
    /\ videoDuration = 0
    /\ trim = [startTime |-> 0, endTime |-> 0, currentTime |-> 0, isPlaying |-> FALSE]
    /\ slider = [isDragging |-> FALSE, activeHandle |-> "null"]

(* the playback screen after its mount effect has run *)
PlayerInit ==
    /\ session \in Sessions
    /\ nav \in [screen : {"player"}, videoUri : BOOLEAN, videoRef : BOOLEAN]
    /\ nav.videoRef = nav.videoUri
    /\ player = [isPlaying |-> FALSE, currentTime |-> session.startTime,
                 playbackSpeed |-> 100, isLooping |-> TRUE,
                 videoLoaded |-> FALSE, isInitialized |-> FALSE]
    /\ initializationAttempted = FALSE
    /\ inits = <<>>
    /\ calls = <<>>
    /\ runSeeks = 0
    /\ ev = NoEvent
    /\ cmds = <<>>
    /\ TrimIdle

PlayerNext ==
    \/ \E status \in Statuses : handleVideoStatusUpdate(status)
    \/ \E i \in DOMAIN inits : InitTimerFired(i)
    \/ \E i \in DOMAIN inits : InitPauseResolved(i)
    \/ \E i \in DOMAIN inits : InitRejected(i)
    \/ \E i \in DOMAIN inits : InitSeekResolved(i)
    \/ \E i \in DOMAIN inits : InitSettled(i)
    \/ handleToggleLoop
    \/ handlePlayPause
    \/ handleSpeedChange
    \/ handleRestart
    \/ \E i \in DOMAIN calls : CallResolved(i)
    \/ \E i \in DOMAIN calls : CallRejected(i)
    \/ handleEditTrim
    \/ handleNewVideo
    \/ goBack
    \/ Unmount

PlayerSpec == PlayerInit /\ [][PlayerNext]_vars

(* A video load on a playback screen that stays mounted, with every player *)
(* command succeeding.  The event loop runs every timer that is due and    *)
(* every continuation of a resolved promise, so each step of               *)
(* initializeVideo is taken once it is enabled.                            *)
LoadNext ==
    \/ \E status \in Statuses : handleVideoStatusUpdate(status)
    \/ \E i \in DOMAIN inits : InitTimerFired(i)
    \/ \E i \in DOMAIN inits : InitPauseResolved(i)
    \/ \E i \in DOMAIN inits : InitSeekResolved(i)
    \/ \E i \in DOMAIN inits : InitSettled(i)
    \/ handleToggleLoop
    \/ handlePlayPause
    \/ handleSpeedChange
    \/ handleRestart
    \/ \E i \in DOMAIN calls : CallResolved(i)

LoadFairness ==
    /\ WF_vars(\E i \in DOMAIN inits : InitTimerFired(i))
    /\ WF_vars(\E i \in DOMAIN inits : InitPauseResolved(i))
    /\ WF_vars(\E i \in DOMAIN inits : InitSeekResolved(i))
    /\ WF_vars(\E i \in DOMAIN inits : InitSettled(i))

LoadSpec == PlayerInit /\ [][LoadNext]_vars /\ LoadFairness

(* A video load whose pauseAsync or setPositionAsync may be rejected, on a *)
(* playback screen that stays mounted.  The player keeps delivering loaded *)
(* notifications, every timer fires and every command settles.             *)
RetryNext ==
    \/ \E status \in Statuses : handleVideoStatusUpdate(status)
    \/ \E i \in DOMAIN inits : InitTimerFired(i)
    \/ \E i \in DOMAIN inits : InitPauseResolved(i)
    \/ \E i \in DOMAIN inits : InitRejected(i)
    \/ \E i \in DOMAIN inits : InitSeekResolved(i)
    \/ \E i \in DOMAIN inits : InitSettled(i)

RetryFairness ==
    /\ WF_vars(\E status \in Statuses : status.isLoaded /\ handleVideoStatusUpdate(status))
    /\ WF_vars(\E i \in DOMAIN inits : InitTimerFired(i))
    /\ WF_vars(\E i \in DOMAIN inits : InitPauseResolved(i) \/ InitRejected(i))
    /\ WF_vars(\E i \in DOMAIN inits : InitSeekResolved(i) \/ InitRejected(i))
    /\ WF_vars(\E i \in DOMAIN inits : InitSettled(i))

RetrySpec == PlayerInit /\ [][RetryNext]_vars /\ RetryFairness

(* the route parameters a mounted playback screen may receive: a new end,  *)
(* a new start, both                                                       *)
ReloadSessions ==
    {[startTime |-> 0, endTime |-> 3000],
     [startTime |-> 0, endTime |-> 5000],
     [startTime |-> 2000, endTime |-> 5000]}

(* no initializeVideo call is between its guard and its end *)
NoLoadInFlight == \A i \in DOMAIN inits : inits[i].pc \in {"done", "failed"}

(* The mounted playback screen receives new route parameters (a navigate   *)
(* to the mounted screen, or setParams): it renders with the new           *)
(* startTime and endTime, and the effect with the dependencies             *)
(* [videoUri, startTime, navigation] runs again when videoUri or startTime *)
(* has changed: it clears the one-shot flag, isInitialized and             *)
(* videoLoaded, and sets currentTime to the new startTime.  Taken between  *)
(* video loads: a suspended initializeVideo call would go on with the      *)
(* parameters of its own render.                                           *)
SessionChanged(params, newUri) ==
    /\ ControlsShown /\ nav.videoRef
    /\ NoLoadInFlight
    /\ newUri \/ params # session
    /\ session' = params
    /\ IF newUri \/ params.startTime # session.startTime
       THEN /\ initializationAttempted' = FALSE
            /\ player' = [player EXCEPT !.isInitialized = FALSE,
                                        !.videoLoaded = FALSE,
                                        !.currentTime = params.startTime]
       ELSE UNCHANGED <<initializationAttempted, player>>
    /\ cmds' = <<>>
    /\ runSeeks' = 0
    /\ ev' = [kind |-> "sessionChanged", newUri |-> newUri]
    /\ UNCHANGED <<inits, calls, trimVars, nav>>

(* A playback screen that stays mounted while its route parameters change, *)
(* with every player command succeeding                                    *)
ReloadNext ==
    \/ \E status \in Statuses : handleVideoStatusUpdate(status)
    \/ \E i \in DOMAIN inits : InitTimerFired(i)
    \/ \E i \in DOMAIN inits : InitPauseResolved(i)
    \/ \E i \in DOMAIN inits : InitSeekResolved(i)
    \/ \E i \in DOMAIN inits : InitSettled(i)
    \/ handlePlayPause
    \/ handleRestart
    \/ \E i \in DOMAIN calls : CallResolved(i)
    \/ \E params \in ReloadSessions, newUri \in BOOLEAN : SessionChanged(params, newUri)

ReloadSpec == PlayerInit /\ [][ReloadNext]_vars

----------------------------------------------------------------------------
(* The trim screen and the playback screen in turn: drag, "Apply Trim",     *)
(* "Edit Trim", on the 1000 ms and the 2000 ms video                        *)

FlowDurations == {SLIDER_WIDTH * k : k \in {5, 10}}

FlowInit == TrimInit /\ videoDuration \in FlowDurations

FlowNext ==
    \/ \E isStart \in BOOLEAN : PanGrant(isStart)
    \/ \E isStart \in BOOLEAN, dx \in Dxs : PanMove(isStart, dx)
    \/ PanRelease
    \/ handleProceedToPlayer
    \/ handleEditTrim

FlowSpec == FlowInit /\ [][FlowNext]_vars

----------------------------------------------------------------------------
(* The progress percentages: calculateProgress of the helpers and the      *)
(* width of the playback screen's progress bar.  A percentage is the       *)
(* fraction num / den; den = 0 stands for the results of a division by     *)
(* zero: NaN (num = 0), Infinity (num > 0) and -Infinity (num < 0).        *)

MaxTotal == 6

(* startTime, endTime and totalTime: a time, or NaN (undefined takes the   *)
(* same branches as NaN)                                                   *)
ProgressTimes == (0 .. MaxTotal) \cup {NaN}

(* positions: before 0 and past the total included *)
ProgressPositions == (-2) .. (MaxTotal + 2)

Percent(n) == [num |-> n, den |-> 1]

Sign(a) == IF a > 0 THEN 1 ELSE IF a < 0 THEN -1 ELSE 0

(* `(a / b) * 100' *)
Ratio100(a, b) ==
    IF a = NaN \/ b = NaN THEN [num |-> 0, den |-> 0]
    ELSE IF b = 0 THEN [num |-> Sign(a), den |-> 0]
    ELSE IF b > 0 THEN [num |-> 100 * a, den |-> b]
    ELSE [num |-> -100 * a, den |-> -b]

(* `Math.max(0, Math.min(100, x))': NaN stays NaN *)
Clamp100(x) ==
    IF x.den = 0 /\ x.num = 0 THEN x
    ELSE IF x.num > 100 * x.den THEN Percent(100)
    ELSE IF x.num < 0 THEN Percent(0)
    ELSE x

(* `!totalTime || totalTime === 0' *)
Falsy(x) == x = 0 \/ x = NaN

calculateProgress_NoGuard(currentTime, totalTime) ==
    Clamp100(Ratio100(currentTime, totalTime))

calculateProgress(currentTime, totalTime) ==
    IF Falsy(totalTime) THEN Percent(0)
    ELSE Clamp100(Ratio100(currentTime, totalTime))

(* `endTime > startTime ? ((currentTime - startTime) /                     *)
(* (endTime - startTime)) * 100 : 0'                                       *)
trimmedProgress ==
    IF Less(session.startTime, session.endTime)
    THEN Ratio100(player.currentTime - session.startTime,
                  session.endTime - session.startTime)
    ELSE Percent(0)

(* the width of progressFill, in percent *)
progressFill == Clamp100(trimmedProgress)

(* a call of calculateProgress *)
CalculateProgress(currentTime, totalTime) ==
    /\ ev' = [kind |-> "calculateProgress", currentTime |-> currentTime,
              totalTime |-> totalTime,
              value |-> calculateProgress(currentTime, totalTime)]
    /\ cmds' = <<>>
    /\ UNCHANGED <<trimVars, playerVars, nav>>

(* the initialized playback screen renders its progress bar *)
RenderProgress ==
    /\ player.isInitialized
    /\ ev' = [kind |-> "progressFill", value |-> progressFill]
    /\ cmds' = <<>>
    /\ UNCHANGED <<trimVars, playerVars, nav>>

(* an initialized playback screen with any session and any non-negative    *)
(* position                                                                *)
ProgressInit ==
    /\ session \in [startTime : ProgressTimes, endTime : ProgressTimes]
    /\ nav = [screen |-> "player", videoUri |-> TRUE, videoRef |-> TRUE]
    /\ \E t \in ProgressPositions :
          /\ t >= 0
          /\ player = [MountedPlayer(session) EXCEPT !.currentTime = t,
                                                     !.videoLoaded = TRUE,
                                                     !.isInitialized = TRUE]
    /\ initializationAttempted = TRUE
    /\ inits = <<>>
    /\ calls = <<>>
    /\ runSeeks = 0
    /\ ev = NoEvent
    /\ cmds = <<>>
    /\ TrimIdle

ProgressNext ==
    \/ \E currentTime \in ProgressPositions, totalTime \in ProgressTimes :
          CalculateProgress(currentTime, totalTime)
    \/ RenderProgress

ProgressSpec == ProgressInit /\ [][ProgressNext]_vars

(* a number from 0 to 100 *)
InPercentRange(v) == v.den > 0 /\ 0 <= v.num /\ v.num <= 100 * v.den

(* C38: calculateProgress(currentTime, totalTime) and the width of the     *)
(* progress bar are numbers from 0 to 100 for every position, and are 0    *)
(* when totalTime is 0 or undefined, respectively when endTime is not      *)
(* greater than startTime                                                  *)
C38_ProgressBounded ==
    /\ ev.kind = "calculateProgress"
          => /\ InPercentRange(ev.value)
             /\ (ev.totalTime = 0 \/ ev.totalTime = NaN) => ev.value = Percent(0)
    /\ ev.kind = "progressFill"
          => /\ InPercentRange(ev.value)
             /\ ~Less(session.startTime, session.endTime) => ev.value = Percent(0)

(* calculateProgress(3, 0) is 0, not Infinity *)
C38_Witness ==
    /\ ev.kind = "calculateProgress"
    /\ ev.currentTime = 3 /\ ev.totalTime = 0
    /\ ev.value = Percent(0)

----------------------------------------------------------------------------
(* Properties of the trim stage (TrimSpec) *)

Moved == ev.kind = "move"

(* C1, as amended: for every video duration of at least 1000 ms, in the    *)
(* initial range set on load (the load effect sets it when videoUri is     *)
(* present) and after every start-handle or end-handle drag update,        *)
(* endTime - startTime >= 1000.                                            *)
C1_GapInvariant ==
    (nav.videoUri /\ videoDuration >= MIN_GAP_MS)
        => trim.endTime - trim.startTime >= MIN_GAP_MS

(* C1 as stated: after every drag update endTime - startTime >= 1000, for  *)
(* every video duration.                                                   *)
C1_GapForEveryDuration ==
    Moved => trim.endTime - trim.startTime >= MIN_GAP_MS

(* a start-handle drag of 200 px to the right on a 2000 ms video, absorbed *)
(* by the clamp at exactly the 1000 ms gap                                 *)
C1_Witness ==
    /\ Moved /\ ev.isStart /\ ev.dx = 200
    /\ videoDuration = 2000
    /\ trim.startTime > 0
    /\ trim.endTime - trim.startTime = MIN_GAP_MS

(* C2: after every start-handle or end-handle drag update, 0 <= startTime  *)
(* and endTime <= videoDuration, for every video duration, those below     *)
(* 1000 ms included.                                                       *)
C2_DomainInvariant ==
    Moved => 0 <= trim.startTime /\ trim.endTime <= videoDuration

(* C27: a start-handle update whose new (clamped) startTime is greater     *)
(* than the preview position commands a seek to that startTime, an         *)
(* end-handle update whose new (clamped) endTime is less than the preview  *)
(* position commands a seek to that endTime, and no other update commands  *)
(* a seek.  (The update leaves currentTime as it was.)                     *)
C27_PreviewCorrection ==
    Moved
    => cmds = IF ev.isStart
              THEN (IF trim.currentTime < trim.startTime
                    THEN <<Seek(trim.startTime)>> ELSE <<>>)
              ELSE (IF trim.endTime < trim.currentTime
                    THEN <<Seek(trim.endTime)>> ELSE <<>>)

(* the preview stands at 1000 ms and the start handle is dragged past it *)
C27_Witness ==
    /\ Moved /\ ev.isStart
    /\ trim.currentTime = 1000 /\ trim.startTime > 1000
    /\ cmds = <<Seek(trim.startTime)>>

(* C28: a gesture start and a gesture end on either handle change neither  *)
(* startTime nor endTime (nor anything else of the trim state: only the    *)
(* slider's isDragging and activeHandle); a move of the start handle never *)
(* changes endTime and a move of the end handle never changes startTime.   *)
C28_BoundedFootprint ==
    [][/\ ev'.kind \in {"grant", "release"}
            => (trim' = trim /\ videoDuration' = videoDuration /\ cmds' = <<>>)
       /\ (ev'.kind = "move" /\ ev'.isStart) => trim'.endTime = trim.endTime
       /\ (ev'.kind = "move" /\ ~ev'.isStart) => trim'.startTime = trim.startTime]_vars

(* the handle is released after a drag that moved startTime: the value of  *)
(* the last move is retained                                               *)
C28_Witness ==
    /\ ev.kind = "release"
    /\ slider = [isDragging |-> FALSE, activeHandle |-> "null"]
    /\ trim.startTime > 0

(* C29: the value a start-handle move passes to onStartTimeChange          *)
(* corresponds to a pixel position in [0, endPosition - 30] and the value  *)
(* an end-handle move passes to onEndTimeChange to a pixel position in     *)
(* [startPosition + 30, SLIDER_WIDTH], both bounds at once, also when      *)
(* endPosition < 30 or startPosition + 30 > SLIDER_WIDTH.                  *)
C29_PixelGap ==
    [][ev'.kind = "move"
          => IF ev'.isStart
             THEN LET position == TimeToPos(StartMoveTime(ev'.dx), videoDuration)
                  IN  0 <= position /\ position <= endPosition - MIN_GAP_PX
             ELSE LET position == TimeToPos(EndMoveTime(ev'.dx), videoDuration)
                  IN  /\ startPosition + MIN_GAP_PX <= position
                      /\ position <= SLIDER_WIDTH]_vars

(* the end handle has just been dragged below the preview position: the    *)
(* update commanded a seek of the preview to the new endTime               *)
EndDraggedBelowPreview ==
    Moved /\ ~ev.isStart /\ cmds = <<Seek(trim.endTime)>>

(* C37: on the trim screen a loaded notification whose position is at or   *)
(* past endTime commands a seek to startTime, playing or not, and no       *)
(* notification commands anything else (no pause); and when the end handle *)
(* has been dragged below the preview position, a next notification that   *)
(* reports the new endTime commands the seek to startTime                  *)
C37_TrimPreviewEndRule ==
    /\ [](ev.kind = "trimStatus"
            => cmds = IF /\ ev.status.isLoaded
                         /\ ev.status.positionMillis >= trim.endTime
                      THEN <<Seek(trim.startTime)>> ELSE <<>>)
    /\ [][(/\ EndDraggedBelowPreview
            /\ ev'.kind = "trimStatus" /\ ev'.status.isLoaded
            /\ ev'.status.positionMillis = trim.endTime)
           => cmds' = <<Seek(trim'.startTime)>>]_vars

(* on the 2000 ms video the end handle was dragged down to 1000 ms, and a  *)
(* paused notification reporting 1000 has sent the preview to startTime    *)
C37_Witness ==
    /\ ev.kind = "trimStatus" /\ ev.status.isLoaded
    /\ ~ev.status.isPlaying
    /\ videoDuration = 2000
    /\ trim.endTime = 1000 /\ ev.status.positionMillis = 1000
    /\ cmds = <<Seek(trim.startTime)>>

(* C18: after a start-handle move and an end-handle move applied in the    *)
(* same update cycle, startTime + 1000 <= endTime (on a video of at least  *)
(* 1000 ms, where the initial range has that gap).                         *)
C18_SimultaneousDrags ==
    (ev.kind = "moveBoth" /\ videoDuration >= MIN_GAP_MS)
        => trim.startTime + MIN_GAP_MS <= trim.endTime

(* |a - b| *)
Distance(a, b) == IF a >= b THEN a - b ELSE b - a

C14_DegenerateDuration ==
    videoDuration = 0
        => /\ {startPosition, endPosition, currentPosition} \cap {NaN, Infinity} = {}
           /\ ~Moved

----------------------------------------------------------------------------
(* Properties of the playback controller (PlayerSpec) *)

IsPrefix(s, t) == Len(s) <= Len(t) /\ \A i \in DOMAIN s : s[i] = t[i]

(* the last event was a loaded notification handled once initialized; the  *)
(* handler changes neither isInitialized nor isLooping, so the state shows *)
(* the values it saw                                                       *)
RuleApplied ==
    ev.kind = "status" /\ ev.status.isLoaded /\ player.isInitialized

(* C3: while isInitialized is false, a loaded notification issues no       *)
(* player command from the handler and leaves currentTime and isPlaying    *)
(* unchanged.                                                              *)
C3_InitializationGating ==
    [][(ev'.kind = "status" /\ ~player.isInitialized)
         => /\ cmds' = <<>>
            /\ player'.currentTime = player.currentTime
            /\ player'.isPlaying = player.isPlaying]_vars

(* a playing notification at or past endTime arrives while uninitialized   *)
(* with the initialization already started, and is ignored                 *)
C3_Witness ==
    /\ ev.kind = "status" /\ ev.status.isLoaded /\ ~ev.started
    /\ ~player.isInitialized
    /\ session.startTime < session.endTime
    /\ ev.status.isPlaying /\ ev.status.positionMillis >= session.endTime
    /\ cmds = <<>>

(* C4: initializeVideo passes its guard at most once after the mount       *)
(* effect has cleared the one-shot flag, however many loaded notifications *)
(* arrive.                                                                 *)
C4_InitializeOnce == Len(inits) <= 1

(* a duplicate loaded notification arrives while the only initialization   *)
(* is suspended at an await                                                *)
C4_Witness ==
    /\ Len(inits) = 1
    /\ inits[1].pc \in {"delay", "pause", "seek", "settle"}
    /\ ev.kind = "status" /\ ev.status.isLoaded /\ ~ev.started

InitCommands ==
    IF session.startTime > 0
    THEN <<Pause, Seek(session.startTime)>>
    ELSE <<Pause>>

C6_LoopCorrectness ==
    (/\ RuleApplied /\ player.isLooping
     /\ ev.status.isPlaying /\ ev.status.positionMillis >= session.endTime)
    => /\ Seek(session.startTime) \in Range(cmds)
       /\ Pause \notin Range(cmds)
       /\ player.currentTime = session.startTime

(* range {2000, 5000}, looping, a playing notification at 5000: seek(2000) *)
C6_Witness ==
    /\ RuleApplied /\ player.isLooping
    /\ session = [startTime |-> 2000, endTime |-> 5000]
    /\ ev.status = [isLoaded |-> TRUE, positionMillis |-> 5000, isPlaying |-> TRUE]
    /\ cmds = <<Seek(2000)>>
    /\ player.currentTime = 2000

(* C7: once initialized and not looping, a playing notification inside     *)
(* [startTime, endTime) is accepted with no command, and one at or past    *)
(* endTime commands pause(), no seek, and leaves isPlaying false.          *)
C7_LoopOffStops ==
    (RuleApplied /\ ~player.isLooping /\ ev.status.isPlaying)
    => /\ (/\ ev.status.positionMillis >= session.startTime
           /\ ev.status.positionMillis < session.endTime)
          => /\ cmds = <<>>
             /\ player.currentTime = ev.status.positionMillis
             /\ player.isPlaying
       /\ ev.status.positionMillis >= session.endTime
          => /\ Pause \in Range(cmds)
             /\ SeeksIn(cmds) = 0
             /\ ~player.isPlaying

(* C8: once initialized, a playing notification below startTime (and below *)
(* endTime) commands a seek to startTime and sets the local position to    *)
(* startTime.                                                              *)
C8_StartBoundary ==
    (/\ RuleApplied /\ ev.status.isPlaying
     /\ ev.status.positionMillis < session.startTime
     /\ ev.status.positionMillis < session.endTime)
    => /\ Seek(session.startTime) \in Range(cmds)
       /\ player.currentTime = session.startTime

(* range {2000, 5000}, a playing notification at 1000: seek(2000) *)
C8_Witness ==
    /\ RuleApplied
    /\ session = [startTime |-> 2000, endTime |-> 5000]
    /\ ev.status = [isLoaded |-> TRUE, positionMillis |-> 1000, isPlaying |-> TRUE]
    /\ cmds = <<Seek(2000)>>
    /\ player.currentTime = 2000

(* C9: a notification fires at most one boundary rule; when it is playing  *)
(* with position >= endTime and position < startTime, only the             *)
(* end-boundary action (loop seek or pause) is commanded.                  *)
C9_RulePrecedence ==
    RuleApplied
    => /\ Len(cmds) <= 1
       /\ (/\ ev.status.isPlaying
           /\ ev.status.positionMillis >= session.endTime
           /\ ev.status.positionMillis < session.startTime)
          => cmds = <<IF player.isLooping THEN Seek(session.startTime) ELSE Pause>>

(* C10: with looping on and startTime < endTime, a run of consecutive      *)
(* playing notifications that all report a position >= endTime is answered *)
(* with at most two seeks to startTime.                                    *)
C10_AtMostTwoSeeksPerRun ==
    (session.startTime < session.endTime /\ player.isLooping) => runSeeks <= 2

(* C24: once initialized, a notification that is not playing, or that is  *)
(* playing with startTime <= p < endTime, issues no player command and     *)
(* sets currentTime to exactly p and isPlaying to the reported flag.       *)
C24_SteadyStateAcceptance ==
    (/\ RuleApplied
     /\ \/ ~ev.status.isPlaying
        \/ /\ session.startTime <= ev.status.positionMillis
           /\ ev.status.positionMillis < session.endTime)
    => /\ cmds = <<>>
       /\ player.currentTime = ev.status.positionMillis
       /\ player.isPlaying = ev.status.isPlaying

(* range {2000, 5000}: a paused notification at 5200, outside the range,   *)
(* is accepted as it is                                                    *)
C24_Witness ==
    /\ RuleApplied
    /\ session = [startTime |-> 2000, endTime |-> 5000]
    /\ ev.status = [isLoaded |-> TRUE, positionMillis |-> 5200, isPlaying |-> FALSE]
    /\ cmds = <<>>
    /\ player.currentTime = 5200 /\ ~player.isPlaying

(* C25: once initialized, handling the same notification (same position,   *)
(* same playing flag) a second time in a row, with the range and isLooping *)
(* unchanged, issues the same commands as the first time and leaves        *)
(* currentTime and isPlaying as the first time left them.                  *)
C25_RuleIdempotent ==
    [][(RuleApplied /\ ev'.kind = "status" /\ ev'.status = ev.status)
          => /\ cmds' = cmds
             /\ player'.currentTime = player.currentTime
             /\ player'.isPlaying = player.isPlaying]_vars

(* range {2000, 5000}, looping: the playing notification at 5000 handled   *)
(* twice in a row, answered by seek(2000) again                            *)
C25_Witness ==
    /\ RuleApplied /\ ev.repeated /\ player.isLooping
    /\ session = [startTime |-> 2000, endTime |-> 5000]
    /\ ev.status = [isLoaded |-> TRUE, positionMillis |-> 5000, isPlaying |-> TRUE]
    /\ cmds = <<Seek(2000)>>
    /\ player.currentTime = 2000 /\ player.isPlaying

(* the user commands of the playback screen *)
UserCommands == {"handlePlayPause", "handleRestart", "handleSpeedChange"}

(* C11: while isInitialized is false, a play/pause toggle, a restart or a   *)
(* rate change issues no player command, suspends at no await and changes  *)
(* no state field (currentTime, isPlaying, playbackSpeed).                 *)
C11_NoOpBeforeInitialization ==
    [][(ev'.kind \in UserCommands /\ ~player.isInitialized)
          => (cmds' = <<>> /\ calls' = calls /\ player' = player)]_vars

(* a restart pressed while initializeVideo awaits its pauseAsync *)
C11_Witness ==
    /\ ev.kind = "handleRestart"
    /\ ~player.isInitialized
    /\ \E i \in DOMAIN inits : inits[i].pc = "pause"
    /\ cmds = <<>> /\ calls = <<>>

(* C15: when the player command a handler awaits is rejected, the state    *)
(* fields are what they were before the handler attempted the command:     *)
(* the handler wrote none of them on its way to that await (the catch      *)
(* block writes nothing back).  A rejected setRateAsync leaves             *)
(* playbackSpeed, a restart whose playAsync is rejected leaves currentTime.*)
C15_RejectionLeavesState ==
    ev.kind = "rejected" => ~ev.call.wrote

(* the events that tear the playback screen down: each runs the blur       *)
(* cleanup or the beforeRemove listener                                    *)
Teardowns == {"handleEditTrim", "handleNewVideo", "goBack"}

PlayInFlight == \E i \in DOMAIN calls : calls[i].pc = "play"

(* C16: when the playback screen is torn down while a playAsync is in      *)
(* flight, pauseAsync is requested, whatever the isPlaying flag.           *)
C16_TeardownForcesPause ==
    [][(ev'.kind \in Teardowns /\ PlayInFlight) => Pause \in Range(cmds')]_vars

(* C17: an initializeVideo call that was suspended at an await when the    *)
(* playback screen was torn down changes no state field (isInitialized,    *)
(* videoLoaded, currentTime, isPlaying) and issues no player command when  *)
(* it resumes.  The step taken is the first one after the teardown.        *)
C17_NoMutationAfterTeardown ==
    [][(ev.kind \in Teardowns /\ ev'.kind = "init")
          => (player' = player /\ cmds' = <<>>)]_vars

(* C21: isInitialized becomes true only when the initializeVideo call has  *)
(* issued pause() and seekTo(startTime) and a position notification has    *)
(* been received after its last command (the seek, or the pause when       *)
(* startTime = 0 and no seek is due); never because the commands resolved  *)
(* or a timer fired.                                                       *)
C21_ConfirmationBased ==
    [][\A i \in DOMAIN inits :
          (/\ ~player.isInitialized /\ player'.isInitialized
           /\ inits[i].pc # "done" /\ inits'[i].pc = "done")
          => /\ Pause \in Range(inits[i].cmds)
             /\ NeedsSeek => Seek(session.startTime) \in Range(inits[i].cmds)
             /\ inits[i].notified]_vars

(* C22: when the pauseAsync or the setPositionAsync of the first           *)
(* initializeVideo call is rejected, isInitialized still becomes true      *)
(* eventually, given that loaded notifications keep being delivered.       *)
C22_NoPermanentFreeze ==
    (Len(inits) >= 1 /\ inits[1].pc = "failed") ~> player.isInitialized

(* the last step was the one of initializeVideo that set isInitialized *)
JustInitialized == ev.kind = "init" /\ player.isInitialized

(* C23: when every player command succeeds, a video load (initializeVideo  *)
(* has passed its guard) eventually reaches isInitialized = true; the step *)
(* that sets it leaves currentTime = startTime and isPlaying = false, and  *)
(* no playAsync is issued while isInitialized is false.                    *)
C23_LoadTerminatesReady ==
    /\ (Len(inits) >= 1) ~> player.isInitialized
    /\ [](JustInitialized
            => (player.currentTime = session.startTime /\ ~player.isPlaying))
    /\ [](~player.isInitialized => Play \notin Range(cmds))

(* the load of the session (2000, 5000) completes after the 500 ms delay   *)
(* that follows its seek                                                   *)
C23_Witness ==
    /\ JustInitialized /\ ev.step = "settled"
    /\ player.currentTime = 2000 /\ ~player.isPlaying
    /\ session = [startTime |-> 2000, endTime |-> 5000]
    /\ inits[1].cmds = <<Pause, Seek(2000)>>

(* the last step resumed a suspended call of the handler fn at the await   *)
(* pc, on a mounted screen                                                 *)
Resumed(fn, pc) ==
    /\ ev.kind = "resolved" /\ ev.call.fn = fn /\ ev.call.pc = pc
    /\ nav.videoRef

C32_ResetOnReload ==
    ev.kind = "sessionChanged"
        => /\ ~player.isInitialized
           /\ ~initializationAttempted
           /\ player.currentTime = session.startTime
           /\ ~player.isPlaying

C34_PlayingImpliesInitialized ==
    player.isPlaying => player.isInitialized

(* C35: play/pause pressed while ready and paused commands                 *)
(* seekTo(startTime) and nothing else when currentTime < startTime or      *)
(* currentTime >= endTime, and play() with no seek otherwise; after such   *)
(* a seek has resolved the handler sets currentTime to startTime and       *)
(* commands play()                                                         *)
C35_PlayStartsInRange ==
    /\ (/\ ev.kind = "handlePlayPause"
         /\ nav.videoRef /\ player.videoLoaded /\ player.isInitialized
         /\ ~player.isPlaying)
          => cmds = IF \/ player.currentTime < session.startTime
                       \/ player.currentTime >= session.endTime
                    THEN <<Seek(session.startTime)>>
                    ELSE <<Play>>
    /\ Resumed("handlePlayPause", "seek")
          => (cmds = <<Play>> /\ player.currentTime = session.startTime)
    /\ Resumed("handlePlayPause", "play")
          => (cmds = <<>> /\ player.isPlaying)

(* with looping off, play was pressed at a position outside (2000, 5000);  *)
(* the seek has resolved, currentTime has moved to 2000 and play() is      *)
(* commanded                                                               *)
C35_Witness ==
    /\ Resumed("handlePlayPause", "seek")
    /\ ~player.isLooping
    /\ session = [startTime |-> 2000, endTime |-> 5000]
    /\ calls[1].wrote
    /\ player.currentTime = 2000
    /\ cmds = <<Play>>

(* C36: with looping on and startTime < endTime, after the steady-state    *)
(* rule has handled a notification with isPlaying true, currentTime is in  *)
(* [startTime, endTime)                                                    *)
C36_LoopingKeepsInRange ==
    (/\ RuleApplied /\ ev.status.isPlaying
     /\ player.isLooping
     /\ session.startTime < session.endTime)
        => /\ session.startTime <= player.currentTime
           /\ player.currentTime < session.endTime

(* a playing notification at the end of (2000, 5000), looping on: the      *)
(* position recorded is 2000                                               *)
C36_Witness ==
    /\ RuleApplied /\ ev.status.isPlaying
    /\ ev.status.positionMillis = 5000
    /\ player.isLooping
    /\ session = [startTime |-> 2000, endTime |-> 5000]
    /\ player.currentTime = 2000

(* the ladder 0.5, 1.0, 1.25, 1.5, 2.0 in hundredths, and its cyclic       *)
(* successor                                                               *)
Ladder == {50, 100, 125, 150, 200}

LadderNext(rate) ==
    CASE rate = 50 -> 100
      [] rate = 100 -> 125
      [] rate = 125 -> 150
      [] rate = 150 -> 200
      [] rate = 200 -> 50

(* C30: playbackSpeed starts at 1.0 and is always one of 0.5, 1.0, 1.25,   *)
(* 1.5, 2.0; each speed press while initialized advances it to the next    *)
(* ladder entry, 2.0 wrapping to 0.5, and commands setRateAsync with that  *)
(* same value; five presses in a row return to the value they started at.  *)
C30_SpeedLadder ==
    /\ player.playbackSpeed = 100
    /\ [](player.playbackSpeed \in Ladder)
    /\ [][(ev'.kind = "handleSpeedChange" /\ player.isInitialized)
             => /\ player'.playbackSpeed = LadderNext(player.playbackSpeed)
                /\ cmds' = <<SetRate(player'.playbackSpeed)>>]_vars
    /\ \A rate \in Ladder :
          LadderNext(LadderNext(LadderNext(LadderNext(LadderNext(rate))))) = rate

(* the fifth speed press since the mount: 1.25, 1.5, 2.0, 0.5 and back to  *)
(* 1.0                                                                     *)
C30_Witness ==
    /\ ev.kind = "handleSpeedChange"
    /\ player.isInitialized
    /\ player.playbackSpeed = 100
    /\ cmds = <<SetRate(100)>>

----------------------------------------------------------------------------
(* Properties of the stage transitions *)

(* C12: "Apply Trim" is refused, with no navigation and the trim state     *)
(* unchanged, whenever startTime >= endTime or endTime - startTime < 1000; *)
(* with a videoUri and endTime - startTime >= 1000, a gap of exactly 1000  *)
(* included, it navigates to the playback screen with that range.          *)
C12_StageValidation ==
    [][ev'.kind = "handleProceedToPlayer"
          => /\ (\/ trim.startTime >= trim.endTime
                 \/ trim.endTime - trim.startTime < MIN_GAP_MS)
                    => (nav' = nav /\ trim' = trim /\ session' = session)
             /\ (nav.videoUri /\ trim.endTime - trim.startTime >= MIN_GAP_MS)
                    => /\ nav'.screen = "player"
                       /\ session'.startTime = trim.startTime
                       /\ session'.endTime = trim.endTime]_vars

(* "Apply Trim" accepted with a gap of exactly 1000 ms *)
C12_Witness ==
    /\ ev.kind = "handleProceedToPlayer"
    /\ nav.screen = "player"
    /\ session.startTime = 1000 /\ session.endTime = 2000
    /\ trim.endTime - trim.startTime = MIN_GAP_MS

(* C26: every session that "Apply Trim" hands to the playback screen       *)
(* carries the trim range current at the press, with startTime < endTime,  *)
(* trimmedDuration = endTime - startTime >= 1000 and originalDuration =    *)
(* the trim screen's videoDuration.                                        *)
C26_SessionHandedOver ==
    (ev.kind = "handleProceedToPlayer" /\ ev.navigated)
    => /\ ev.params.startTime = trim.startTime
       /\ ev.params.endTime = trim.endTime
       /\ Less(ev.params.startTime, ev.params.endTime)
       /\ ev.params.trimmedDuration = Minus(ev.params.endTime, ev.params.startTime)
       /\ AtLeast(ev.params.trimmedDuration, MIN_GAP_MS)
       /\ ev.params.originalDuration = videoDuration

(* C13: after "Edit Trim" the trim screen shows the range of the session   *)
(* that was just played: its startTime and endTime are those of the        *)
(* playback screen's route.params.                                         *)
C13_EditTrimRoundTrip ==
    [][ev'.kind = "handleEditTrim"
          => /\ trim'.startTime = session.startTime
             /\ trim'.endTime = session.endTime]_vars

(* the actions a screen without videoUri offers: "Go Back" of the alert    *)
(* and "Select New Video" of the playback screen's error view              *)
Recoveries == {"trimGoBack", "goBack", "handleNewVideo"}

(* C20: on a trim or playback screen entered without videoUri, no Video is *)
(* mounted, no step issues a player command, "Apply Trim" does not         *)
(* navigate, and every recovery action the screen offers leads to the      *)
(* selection screen.                                                       *)
C20_MissingVideoUri ==
    [][~nav.videoUri
          => /\ ~nav'.videoRef
             /\ cmds' = <<>>
             /\ ev'.kind = "handleProceedToPlayer" => nav' = nav
             /\ ev'.kind \in Recoveries => nav'.screen = "selection"]_vars

=============================================================================
